---------------------------- MODULE Spec2Model ----------------------------
(***************************************************************************)
(* Grammar-based compression: the four approximation algorithms for the   *)
(* smallest grammar problem (Bisection, Exhaustive, Lehman1, Sakamoto)    *)
(* and the benchmark's size metric.                                        *)
(*                                                                         *)
(* A character is one of the strings of Alphabet.  A string (a terminal   *)
(* or a nonterminal, which the code names by its expansion) is a sequence *)
(* of characters.  A grammar is a function from its keys (strings) to     *)
(* right-hand sides (sequences of strings), as the code's dictionaries.   *)
(***************************************************************************)
EXTENDS Integers, Sequences, FiniteSets, TLC

\* Inputs are strings over a two-letter alphabet of at most MaxLen characters.
MaxLen == 9

\* Exhaustive is run on inputs of at most MaxExhaustiveLen characters.
MaxExhaustiveLen == 6

\* computeOverlap is called on strings of at most MaxOverlapLen characters.
MaxOverlapLen == 4

\* The superstring kernel is called on lists of at most MaxListLen strings of
\* at most MaxItemLen characters each.
MaxListLen == 3

MaxItemLen == 2

\* splitTooBigs is called on lists of at most MaxSplitItems strings of at most
\* MaxSplitItemLen characters each, with a threshold of at most MaxSplitLen.
MaxSplitItems == 2

MaxSplitItemLen == 3

MaxSplitLen == 2

\* make_sets is looked at in the first arrangement pass of strings of at most
\* MaxSetsLen characters.
MaxSetsLen == 7

Alphabet == {"a", "b"}

\* The order of characters in string comparison.
Ord(c) == IF c = "a" THEN 1 ELSE 2

RECURSIVE StringsOfLen(_)
StringsOfLen(n) ==
    IF n = 0 THEN {<<>>}
    ELSE {Append(T, c) : T \in StringsOfLen(n - 1), c \in Alphabet}

Strings(lo, hi) == UNION {StringsOfLen(n) : n \in lo..hi}

Min2(x, y) == IF x < y THEN x ELSE y

\* Python's s[i:j] for 0 <= i, j <= len(s) (0-based, j exclusive).
Slice(s, i, j) == SubSeq(s, i + 1, j)

\* Python's "".join(list): the concatenation of a sequence of strings.
RECURSIVE Join(_)
Join(ss) == IF ss = <<>> THEN <<>> ELSE Head(ss) \o Join(Tail(ss))

\* Python's [c for c in s]: the characters of s, each a string of length 1.
Chars(s) == [i \in 1..Len(s) |-> <<s[i]>>]

\* Python's comparison of strings: s < t.
RECURSIVE StrLess(_, _)
StrLess(s, t) ==
    IF t = <<>> THEN FALSE
    ELSE IF s = <<>> THEN TRUE
    ELSE IF Ord(Head(s)) # Ord(Head(t)) THEN Ord(Head(s)) < Ord(Head(t))
    ELSE StrLess(Tail(s), Tail(t))

\* The empty dictionary.
EmptyGrammar == [k \in {} |-> <<>>]

\* Python's G[k] = v.
Put(G, k, v) == [x \in DOMAIN G \cup {k} |-> IF x = k THEN v ELSE G[x]]

\* Python's G.update(H): H's productions take precedence.
Update(G, H) == [x \in DOMAIN G \cup DOMAIN H |-> IF x \in DOMAIN H THEN H[x] ELSE G[x]]

RECURSIVE SumOver(_, _)
SumOver(G, keys) ==
    IF keys = {} THEN 0
    ELSE LET k == CHOOSE x \in keys : TRUE
         IN  Len(G[k]) + SumOver(G, keys \ {k})

\* performance.py: the sum of the number of right-hand side symbols of all rules.
grammarSize(G) == SumOver(G, DOMAIN G)

(***************************************************************************)
(* Bisection                                                               *)
(***************************************************************************)
\* _recurse splitting at the ceiling of the midpoint.
RECURSIVE BisectionRecurseCeil(_, _)
BisectionRecurseCeil(T, grammar) ==
    IF Len(T) <= 1 THEN grammar
    ELSE LET mid == (Len(T) + 1) \div 2
             g1  == Put(grammar, T, <<Slice(T, 0, mid), Slice(T, mid, Len(T))>>)
             g2  == BisectionRecurseCeil(Slice(T, 0, mid), g1)
         IN  BisectionRecurseCeil(Slice(T, mid, Len(T)), g2)

RECURSIVE BisectionRecurse(_, _)
BisectionRecurse(T, grammar) ==
    IF Len(T) <= 1 THEN grammar
    ELSE LET mid == Len(T) \div 2
             g1  == Put(grammar, T, <<Slice(T, 0, mid), Slice(T, mid, Len(T))>>)
             g2  == BisectionRecurse(Slice(T, 0, mid), g1)
         IN  BisectionRecurse(Slice(T, mid, Len(T)), g2)

getBisectionGrammar(T) == BisectionRecurse(T, EmptyGrammar)

(***************************************************************************)
(* Exhaustive                                                              *)
(***************************************************************************)
\* The grammars G built from one split of goal, for every g of gs (left) and
\* h of hs (right), in the generator's order: g outer, h inner.
CombineAll(goal, left, right, gs, hs) ==
    [n \in 1..(Len(gs) * Len(hs)) |->
        LET g == gs[((n - 1) \div Len(hs)) + 1]
            h == hs[((n - 1) % Len(hs)) + 1]
        IN  Update(Update(Put(EmptyGrammar, goal, <<left, right>>), h), g)]

RECURSIVE generateAllGrammars(_)
\* The generator's loop taking the split points in decreasing order.
RECURSIVE GrammarsFromSplitDescending(_, _)
GrammarsFromSplitDescending(goal, i) ==
    IF i >= Len(goal) THEN <<>>
    ELSE LET left  == Slice(goal, 0, i)
             right == Slice(goal, i, Len(goal))
         IN  GrammarsFromSplitDescending(goal, i + 1)
             \o CombineAll(goal, left, right,
                           generateAllGrammars(left), generateAllGrammars(right))

RECURSIVE GrammarsFromSplit(_, _)
GrammarsFromSplit(goal, i) ==
    IF i >= Len(goal) THEN <<>>
    ELSE LET left  == Slice(goal, 0, i)
             right == Slice(goal, i, Len(goal))
         IN  CombineAll(goal, left, right,
                        generateAllGrammars(left), generateAllGrammars(right))
             \o GrammarsFromSplit(goal, i + 1)

\* The sequence of grammars the generator yields, in order.
generateAllGrammars(goal) ==
    IF Len(goal) = 1 THEN <<EmptyGrammar>>
    ELSE GrammarsFromSplit(goal, 1)

RECURSIVE stageCount(_, _)
stageCount(G, s) ==
    IF s \notin DOMAIN G THEN 0
    ELSE LET depths == {stageCount(G, G[s][i]) : i \in 1..Len(G[s])}
         IN  (CHOOSE d \in depths : \A e \in depths : e <= d) + 1

\* The sort key of getExhaustiveGrammar: (len(G), stageCount(G, S)).
ExhaustiveKey(G, T) == <<Cardinality(DOMAIN G), stageCount(G, T)>>

\* The order on the number of productions alone.
KeyLessSizeOnly(k1, k2) == k1[1] < k2[1]

\* The opposite order: the greater key first.
KeyLessReversed(k1, k2) == k2[1] < k1[1] \/ (k2[1] = k1[1] /\ k2[2] < k1[2])

KeyLess(k1, k2) == k1[1] < k2[1] \/ (k1[1] = k2[1] /\ k1[2] < k2[2])

\* Python's min(list, key=...): the first element whose key is smallest.
MinByKey(Gs, T) ==
    LET keys == [n \in 1..Len(Gs) |-> ExhaustiveKey(Gs[n], T)]
        i    == CHOOSE n \in 1..Len(Gs) :
                    /\ \A m \in 1..Len(Gs) : ~KeyLess(keys[m], keys[n])
                    /\ \A m \in 1..(n - 1) : KeyLess(keys[n], keys[m])
    IN  Gs[i]

getExhaustiveGrammar(T) == MinByKey(generateAllGrammars(T), T)

(***************************************************************************)
(* Lehman1: the superstring kernel                                         *)
(***************************************************************************)
\* Python's comparison of the triples (overlap, i, j): t1 < t2.
TripleLess(t1, t2) ==
    \/ t1[1] < t2[1]
    \/ t1[1] = t2[1] /\ t1[2] < t2[2]
    \/ t1[1] = t2[1] /\ t1[2] = t2[2] /\ t1[3] < t2[3]

\* The loop of computeOverlap sliding all the way, i = min(len(s1), len(s2))
\* included.
RECURSIVE OverlapLoopInclusive(_, _, _, _)
OverlapLoopInclusive(s1, s2, i, max_overlap) ==
    LET t == <<i, Len(s1) - i, 0>>
    IN  IF i > Min2(Len(s1), Len(s2)) THEN max_overlap
        ELSE OverlapLoopInclusive(s1, s2, i + 1,
                IF Slice(s1, Len(s1) - i, Len(s1)) = Slice(s2, 0, i)
                   /\ TripleLess(max_overlap, t)
                THEN t ELSE max_overlap)

\* The loop of computeOverlap from i on: max_overlap = max(max_overlap, t)
\* where the suffix of s1 and the prefix of s2 of length i agree.
RECURSIVE OverlapLoop(_, _, _, _)
OverlapLoop(s1, s2, i, max_overlap) ==
    LET t == <<i, Len(s1) - i, 0>>
    IN  IF i >= Min2(Len(s1), Len(s2)) THEN max_overlap
        ELSE OverlapLoop(s1, s2, i + 1,
                IF Slice(s1, Len(s1) - i, Len(s1)) = Slice(s2, 0, i)
                   /\ TripleLess(max_overlap, t)
                THEN t ELSE max_overlap)

computeOverlap(s1, s2) == OverlapLoop(s1, s2, 1, <<0, Len(s1), 0>>)

\* All (i, j) with i < j, 0-based, of a list of n strings.
IndexPairs(n) == {p \in (0..(n - 1)) \X (0..(n - 1)) : p[1] < p[2]}

\* The triple of the first pair found with the greatest overlap: the smallest
\* (i, j) among the triples of greatest overlap.
MaxOverlapTripleFirst(Ss) ==
    LET triples == {<<computeOverlap(Ss[p[1] + 1], Ss[p[2] + 1])[1], p[1], p[2]>> :
                        p \in IndexPairs(Len(Ss))}
        best    == {t \in triples : \A u \in triples : u[1] <= t[1]}
    IN  CHOOSE t \in best : \A u \in best : ~TripleLess(u, t)

\* The triple pairWithMaximumOverlap ends with: the greatest of the
\* (overlap, i, j); the initial (-1, None, None) is below all of them.
MaxOverlapTriple(Ss) ==
    LET triples == {<<computeOverlap(Ss[p[1] + 1], Ss[p[2] + 1])[1], p[1], p[2]>> :
                        p \in IndexPairs(Len(Ss))}
    IN  CHOOSE t \in triples : \A u \in triples : ~TripleLess(t, u)

pairWithMaximumOverlap(Ss) ==
    LET m == MaxOverlapTriple(Ss)
    IN  <<Ss[m[2] + 1], Ss[m[3] + 1]>>

\* Python's list.remove(x): the list without its first element equal to x.
RECURSIVE Remove(_, _)
Remove(list, x) ==
    IF list = <<>> THEN <<>>
    ELSE IF Head(list) = x THEN Tail(list)
    ELSE <<Head(list)>> \o Remove(Tail(list), x)

\* The dictionary substringSubstringIndices after the first loop: every
\* input string starts at 0.  The index lists are kept as sets: the code only
\* concatenates and shifts them, and takes set() of the result.
InitialIndices(strings) == [s \in {strings[i] : i \in 1..Len(strings)} |-> {0}]

\* The merge loop keeping the offsets of s2 as they are, not shifted by the
\* part of s1 in front of them.
RECURSIVE MergeLoopUnshifted(_, _)
MergeLoopUnshifted(strings, indices) ==
    IF Len(strings) <= 1 THEN [strings |-> strings, indices |-> indices]
    ELSE LET pair    == pairWithMaximumOverlap(strings)
             s1      == pair[1]
             s2      == pair[2]
             rest    == Remove(Remove(strings, s1), s2)
             overlap == computeOverlap(s1, s2)
             merged  == Slice(s1, 0, overlap[2]) \o s2
             old     == IF merged \in DOMAIN indices THEN indices[merged] ELSE {}
             new     == old \cup indices[s1] \cup indices[s2]
         IN  MergeLoopUnshifted(rest \o <<merged>>, Put(indices, merged, new))

\* The merge loop of blumSmallestSuperstringAndBreaking.
RECURSIVE MergeLoop(_, _)
MergeLoop(strings, indices) ==
    IF Len(strings) <= 1 THEN [strings |-> strings, indices |-> indices]
    ELSE LET pair    == pairWithMaximumOverlap(strings)
             s1      == pair[1]
             s2      == pair[2]
             rest    == Remove(Remove(strings, s1), s2)
             overlap == computeOverlap(s1, s2)
             merged  == Slice(s1, 0, overlap[2]) \o s2
             old     == IF merged \in DOMAIN indices THEN indices[merged] ELSE {}
             new     == old \cup indices[s1] \cup {i + overlap[2] : i \in indices[s2]}
         IN  MergeLoop(rest \o <<merged>>, Put(indices, merged, new))

\* The elements of a finite set of numbers in increasing order.
RECURSIVE Sorted(_)
Sorted(X) ==
    IF X = {} THEN <<>>
    ELSE LET m == CHOOSE x \in X : \A y \in X : x <= y
         IN  <<m>> \o Sorted(X \ {m})

blumSmallestSuperstringAndBreaking(Ss) ==
    LET r           == MergeLoop(Ss, InitialIndices(Ss))
        superstring == r.strings[1]
        cuts        == Sorted({0} \cup r.indices[superstring] \cup {Len(superstring)})
    IN  [n \in 1..(Len(cuts) - 1) |-> Slice(superstring, cuts[n], cuts[n + 1])]

\* splitTooBigs breaking the strings that reach split_len as well.
RECURSIVE splitTooBigsFromLen(_, _)
splitTooBigsFromLen(strings, split_len) ==
    IF strings = <<>> THEN <<>>
    ELSE LET s == Head(strings)
         IN  (IF Len(s) >= split_len
              THEN <<Slice(s, 0, Len(s) \div 2), Slice(s, Len(s) \div 2, Len(s))>>
              ELSE <<s>>)
             \o splitTooBigsFromLen(Tail(strings), split_len)

RECURSIVE splitTooBigs(_, _)
splitTooBigs(strings, split_len) ==
    IF strings = <<>> THEN <<>>
    ELSE LET s == Head(strings)
         IN  (IF Len(s) > split_len
              THEN <<Slice(s, 0, Len(s) \div 2), Slice(s, Len(s) \div 2, Len(s))>>
              ELSE <<s>>)
             \o splitTooBigs(Tail(strings), split_len)

\* int(math.ceil(math.log(n, 2))) for n >= 1: the least e with 2^e >= n.
\* math.log works in floating point; its result rounds to this value for the
\* lengths modelled (the first n where it does not is 2^29).
RECURSIVE CeilLog2From(_, _)
CeilLog2From(n, e) == IF 2^e >= n THEN e ELSE CeilLog2From(n, e + 1)

CeilLog2(n) == CeilLog2From(n, 0)

\* The first threshold k of generateCs; 2^(-1) = 0.5 is below 2 as 0 is.
FirstK(n) == IF CeilLog2(n) = 0 THEN 0 ELSE 2^(CeilLog2(n) - 1)

\* The loop of generateCs splitting at twice the threshold of the level.
RECURSIVE CsLoopLateSplit(_, _)
CsLoopLateSplit(Cs, k) ==
    IF k < 2 THEN Cs
    ELSE LET pk  == blumSmallestSuperstringAndBreaking(Cs[Len(Cs)])
             pkp == splitTooBigs(pk, 2 * k)
         IN  CsLoopLateSplit(Append(Cs, pkp), k \div 2)

RECURSIVE CsLoop(_, _)
CsLoop(Cs, k) ==
    IF k < 2 THEN Cs
    ELSE LET pk  == blumSmallestSuperstringAndBreaking(Cs[Len(Cs)])
             pkp == splitTooBigs(pk, k)
         IN  CsLoop(Append(Cs, pkp), k \div 2)

generateCs(T) == CsLoop(<<<<T>>>>, FirstK(Len(T)))

(***************************************************************************)
(* Lehman1: substring construction and stitching                           *)
(***************************************************************************)
\* findPrefixStart: the least i (0-based) such that s is a prefix of the
\* concatenation of small_strings[i:], or -1 where the code raises
\* "String not found as a prefix".
RECURSIVE findPrefixStart(_, _, _)
findPrefixStart(s, small_strings, i) ==
    IF i >= Len(small_strings) THEN -1
    ELSE LET joined == Join(Slice(small_strings, i, Len(small_strings)))
         IN  IF s = Slice(joined, 0, Min2(Len(s), Len(joined))) THEN i
             ELSE findPrefixStart(s, small_strings, i + 1)

\* The while loop of findLongestPrefix: (sPrefixEnd, remSLen) at its exit.
RECURSIVE PrefixEndLoop(_, _, _)
PrefixEndLoop(small_strings, sPrefixEnd, remSLen) ==
    IF sPrefixEnd < Len(small_strings) /\ Len(small_strings[sPrefixEnd + 1]) <= remSLen
    THEN PrefixEndLoop(small_strings, sPrefixEnd + 1,
                       remSLen - Len(small_strings[sPrefixEnd + 1]))
    ELSE <<sPrefixEnd, remSLen>>

\* findLongestPrefix returning len(s) as the length used.
findLongestPrefixUsedAll(s, small_strings) ==
    LET sPrefixStart == findPrefixStart(s, small_strings, 0)
        e            == PrefixEndLoop(small_strings, sPrefixStart, Len(s))
    IN  IF sPrefixStart = -1 THEN <<-1, -1, 0>>
        ELSE <<sPrefixStart, e[1], Len(s)>>

\* (start, end, used), 0-based with end exclusive; start = -1 where the code raises.
findLongestPrefix(s, small_strings) ==
    LET sPrefixStart == findPrefixStart(s, small_strings, 0)
        e            == PrefixEndLoop(small_strings, sPrefixStart, Len(s))
    IN  IF sPrefixStart = -1 THEN <<-1, -1, 0>>
        ELSE <<sPrefixStart, e[1], Len(s) - e[2]>>

\* The first loop of recursiveCall, from i on.
RECURSIVE LeftLoop(_, _, _)
LeftLoop(T, i, grammar) ==
    LET mid == Len(T) \div 2
    IN  IF i >= mid - 1 THEN grammar
        ELSE LeftLoop(T, i + 1,
                Put(grammar, Join(Slice(T, i, mid)),
                    <<T[i + 1], Join(Slice(T, i + 1, mid))>>))

\* The second loop of recursiveCall, from i on.
RECURSIVE RightLoop(_, _, _)
RightLoop(T, i, grammar) ==
    LET mid == Len(T) \div 2
    IN  IF i >= Len(T) THEN grammar
        ELSE RightLoop(T, i + 1,
                Put(grammar, Join(Slice(T, mid, i + 1)),
                    <<Join(Slice(T, mid, i)), T[i + 1]>>))

\* T is a sequence of strings (one level of the hierarchy, or the characters).
RECURSIVE recursiveCall(_, _)
recursiveCall(T, grammar) ==
    IF Len(T) = 1 THEN grammar
    ELSE LET mid == Len(T) \div 2
             g1  == LeftLoop(T, 0, grammar)
             g2  == RightLoop(T, mid + 1, g1)
             g3  == recursiveCall(Slice(T, 0, mid), g2)
         IN  recursiveCall(Slice(T, mid, Len(T)), g3)

generateSubstringConstructionGrammar(T) == recursiveCall(T, EmptyGrammar)

\* The grammar of getLehman1Grammar before the stitching loops: the substring
\* construction of every level, then of the characters of the input.
RECURSIVE UpdateLevels(_, _, _)
UpdateLevels(Cs, n, grammar) ==
    IF n > Len(Cs) THEN grammar
    ELSE UpdateLevels(Cs, n + 1,
            Update(grammar, generateSubstringConstructionGrammar(Cs[n])))

SubstringConstructions(T, Cs) ==
    Update(UpdateLevels(Cs, 1, EmptyGrammar),
           generateSubstringConstructionGrammar(Chars(T)))

\* The split taken without looking at the grammar: always the last one.
FindSplitLast(C, start, end, split, grammar) == end - 1

\* The for loop over split, from split on: the first split that both halves
\* allow, or the last one (end - 1) when none does.
RECURSIVE FindSplit(_, _, _, _, _)
FindSplit(C, start, end, split, grammar) ==
    LET half1 == Join(Slice(C, start, split))
        half2 == Join(Slice(C, split, end))
    IN  IF \/ split >= end - 1
           \/ /\ (split = start + 1 \/ half1 \in DOMAIN grammar)
              /\ (split = end - 1 \/ half2 \in DOMAIN grammar)
        THEN split
        ELSE FindSplit(C, start, end, split + 1, grammar)

\* The loop "for C in Cs[i+1:]" of the stitching of one string, from level n
\* (1-based) on: the right-hand side built so far and what is left of s.
\* raised is set where findLongestPrefix raises.
RECURSIVE StitchLevels(_, _, _, _, _)
StitchLevels(Cs, n, rhs, sRemainder, grammar) ==
    IF n > Len(Cs) THEN [rhs |-> rhs \o Chars(sRemainder), raised |-> FALSE]
    ELSE LET C     == Cs[n]
             f     == findLongestPrefix(sRemainder, C)
             start == f[1]
             end   == f[2]
             used  == f[3]
             rest  == Slice(sRemainder, used, Len(sRemainder))
         IN  IF start = -1 THEN [rhs |-> rhs, raised |-> TRUE]
             ELSE IF start = end THEN StitchLevels(Cs, n + 1, rhs, sRemainder, grammar)
             ELSE IF start + 1 = end
                  THEN StitchLevels(Cs, n + 1, Append(rhs, C[start + 1]), rest, grammar)
             ELSE IF start + 2 = end
                  THEN StitchLevels(Cs, n + 1, rhs \o <<C[start + 1], C[start + 2]>>,
                                    rest, grammar)
             ELSE LET split == FindSplit(C, start, end, start + 1, grammar)
                      half1 == Join(Slice(C, start, split))
                      half2 == Join(Slice(C, split, end))
                  IN  StitchLevels(Cs, n + 1, rhs \o <<half1, half2>>, rest, grammar)

\* The stitching of s = Cs[i][j] that leaves a production s -> [s] written at
\* a coarser level as it is.
StitchOneKeepingLoop(Cs, i, j, grammar) ==
    LET s  == Cs[i][j]
        g0 == Put(grammar, s, <<>>)
        r  == StitchLevels(Cs, i + 1, <<>>, s, g0)
    IN  IF s \in DOMAIN grammar /\ grammar[s] = <<s>>
        THEN [grammar |-> grammar, raised |-> FALSE]
        ELSE [grammar |-> Put(grammar, s, r.rhs), raised |-> r.raised]

\* The body of the stitching loops for s = Cs[i][j] (i, j 1-based) with
\* len(s) > 1: grammar[s] is emptied, then filled from the finer levels.
StitchOne(Cs, i, j, grammar) ==
    LET s  == Cs[i][j]
        g0 == Put(grammar, s, <<>>)
        r  == StitchLevels(Cs, i + 1, <<>>, s, g0)
    IN  [grammar |-> Put(grammar, s, r.rhs), raised |-> r.raised]

\* The final loop of getLehman1Grammar raises "FUUU".
ClosureViolated(grammar) ==
    \E k \in DOMAIN grammar : \E n \in 1..Len(grammar[k]) :
        Len(grammar[k][n]) > 1 /\ grammar[k][n] \notin DOMAIN grammar

(***************************************************************************)
(* Sakamoto (LEVELWISE-REPAIR).  w is a sequence of symbols (strings);     *)
(* positions in w are 0-based as in the code, so w[i] there is w[i + 1].   *)
(***************************************************************************)
RECURSIVE TrivialLoop(_, _, _)
TrivialLoop(w, i, P) ==
    IF i > Len(w) THEN P
    ELSE TrivialLoop(w, i + 1,
            Put(P, Join(Slice(w, 0, i)), <<Join(Slice(w, 0, i - 1)), w[i]>>))

\* The chain without its first production, that of the first two symbols.
produceTrivialGrammarFrom3(w) == TrivialLoop(w, 3, EmptyGrammar)

produceTrivialGrammar(w) == TrivialLoop(w, 2, EmptyGrammar)

hasRepeatingPairs(w) ==
    \E i, j \in 1..(Len(w) - 1) : i < j /\ w[i] = w[j] /\ w[i + 1] = w[j + 1]

\* findMaxRepeating(w, i): the last position of the run of w[i] that starts at i.
RECURSIVE RunEnd(_, _, _)
RunEnd(w, i, j) ==
    IF j < Len(w) /\ w[j + 1] = w[i + 1] THEN RunEnd(w, i, j + 1) ELSE j - 1

findMaxRepeating(w, i) == <<i, RunEnd(w, i, i + 1)>>

\* The for loop of hasRepeatingSymbol stopping one position early, before the
\* last pair of w.
RECURSIVE RepeatingFromShort(_, _)
RepeatingFromShort(w, i) ==
    IF i >= Len(w) - 2 THEN <<-1, -1>>
    ELSE LET r == findMaxRepeating(w, i)
         IN  IF r[1] # r[2] THEN r ELSE RepeatingFromShort(w, i + 1)

\* The for loop of hasRepeatingSymbol from i on; <<-1, -1>> stands for None.
RECURSIVE RepeatingFrom(_, _)
RepeatingFrom(w, i) ==
    IF i >= Len(w) - 1 THEN <<-1, -1>>
    ELSE LET r == findMaxRepeating(w, i)
         IN  IF r[1] # r[2] THEN r ELSE RepeatingFrom(w, i + 1)

hasRepeatingSymbol(w) == IF Len(w) < 2 THEN <<-1, -1>> ELSE RepeatingFrom(w, 0)

\* Python's s * n.
RECURSIVE Repeat(_, _)
Repeat(s, n) == IF n <= 0 THEN <<>> ELSE s \o Repeat(s, n - 1)

\* produceRepeatingSymbolGrammar without the production of a symbol of two
\* characters.
RECURSIVE produceRepeatingSymbolGrammarFrom3(_, _)
produceRepeatingSymbolGrammarFrom3(P, T) ==
    IF Len(T) = 2 THEN P
    ELSE IF Len(T) % 2 = 0
    THEN LET rhs1 == Slice(T, 0, Len(T) \div 2)
             rhs2 == Slice(T, Len(T) \div 2, Len(T))
             P1   == Put(P, T, <<rhs1, rhs2>>)
         IN  produceRepeatingSymbolGrammarFrom3(
                 produceRepeatingSymbolGrammarFrom3(P1, rhs1), rhs2)
    ELSE LET rhs1 == Slice(T, 0, Len(T) - 1)
             rhs2 == Slice(T, Len(T) - 1, Len(T))
         IN  produceRepeatingSymbolGrammarFrom3(Put(P, T, <<rhs1, rhs2>>), rhs1)

\* T is the new symbol as a string of characters, as the code takes it.
RECURSIVE produceRepeatingSymbolGrammar(_, _)
produceRepeatingSymbolGrammar(P, T) ==
    IF Len(T) = 2 THEN Put(P, T, <<Slice(T, 0, 1), Slice(T, 1, 2)>>)
    ELSE IF Len(T) % 2 = 0
    THEN LET rhs1 == Slice(T, 0, Len(T) \div 2)
             rhs2 == Slice(T, Len(T) \div 2, Len(T))
             P1   == Put(P, T, <<rhs1, rhs2>>)
         IN  produceRepeatingSymbolGrammar(produceRepeatingSymbolGrammar(P1, rhs1), rhs2)
    ELSE LET rhs1 == Slice(T, 0, Len(T) - 1)
             rhs2 == Slice(T, Len(T) - 1, Len(T))
         IN  produceRepeatingSymbolGrammar(Put(P, T, <<rhs1, rhs2>>), rhs1)

\* The while loop of repetition: w is changed in place, P is returned.
RECURSIVE RepetitionLoop(_, _)
RepetitionLoop(w, P) ==
    LET r == hasRepeatingSymbol(w)
    IN  IF r = <<-1, -1>> THEN [w |-> w, P |-> P]
        ELSE LET i     == r[1]
                 j     == r[2]
                 A_a_j == Repeat(w[i + 1], j - i + 1)
                 w1    == Slice(w, 0, i) \o <<A_a_j>> \o Slice(w, j + 1, Len(w))
             IN  RepetitionLoop(w1, produceRepeatingSymbolGrammar(P, A_a_j))

repetition(w) == RepetitionLoop(w, EmptyGrammar)

\* Python's comparison of the entries (count, (first, second)): e1 < e2.
EntryLess(e1, e2) ==
    \/ e1[1] < e2[1]
    \/ /\ e1[1] = e2[1]
       /\ \/ StrLess(e1[2][1], e2[2][1])
          \/ e1[2][1] = e2[2][1] /\ StrLess(e1[2][2], e2[2][2])

\* A set of entries as a list, greatest first (sort, then reverse).
RECURSIVE SortedDescending(_)
SortedDescending(entries) ==
    IF entries = {} THEN <<>>
    ELSE LET m == CHOOSE e \in entries : \A f \in entries : ~EntryLess(e, f)
         IN  <<m>> \o SortedDescending(entries \ {m})

make_set_c(seg, w) ==
    {<<i, i + 1>> : i \in {k \in 0..(Len(w) - 2) : w[k + 1] = seg[1] /\ w[k + 2] = seg[2]}}

createSortedSegmentList(w) ==
    LET segments == {<<w[i], w[i + 1]>> : i \in 1..(Len(w) - 1)}
    IN  SortedDescending({<<Cardinality(make_set_c(seg, w)), seg>> : seg \in segments})

\* make_sets: the occurrences of C that are Left-fixed, Right-fixed and Free.
LeftOf(w, C, Assignments) ==
    {x \in C : x[1] - 1 > 0 /\ <<x[1] - 1, x[1]>> \in DOMAIN Assignments}

RightOf(w, C, Assignments) ==
    {x \in C \ LeftOf(w, C, Assignments) :
        x[1] + 2 < Len(w) /\ <<x[1] + 1, x[1] + 2>> \in DOMAIN Assignments}

\* No occurrence taken as free.
FreeOfNone(w, C, Assignments) == {}

FreeOf(w, C, Assignments) == (C \ LeftOf(w, C, Assignments)) \ RightOf(w, C, Assignments)

\* "none" stands for Python's None.
subgroup(a, assignments, D) ==
    LET index == assignments[a]
        same  == {x \in DOMAIN assignments : assignments[x] = index}
        inD   == \E x \in same : x \in DOMAIN D
        ninD  == \E x \in same : x \notin DOMAIN D
    IN  IF inD /\ ninD THEN "irregular"
        ELSE IF ~inD /\ ninD THEN "unselected"
        ELSE IF inD /\ ~ninD THEN "selected"
        ELSE "none"

group_contents(seg, w, assignments, dictionary) ==
    LET others   == {x \in DOMAIN assignments :
                        x[1] = seg[1] /\ x[2] = seg[2] /\ assignments[x] # assignments[seg]}
        otherseg == IF others = {} THEN seg ELSE CHOOSE x \in others : TRUE
    IN  IF subgroup(otherseg, assignments, dictionary) = "irregular" THEN "irregular"
        ELSE IF subgroup(otherseg, assignments, dictionary) = "unselected" THEN "unselected"
        ELSE "none"

\* The segment of x that assignment and check_all look at: to the left of an
\* occurrence of Left, to the right of one of Right.
Neighbour(side, x) == IF side = "left" THEN <<x[1] - 1, x[1]>> ELSE <<x[2], x[2] + 1>>

check_all(side, a, assignments, dictionary) ==
    IF \E x \in a : subgroup(Neighbour(side, x), assignments, dictionary) = "irregular"
    THEN "irregular" ELSE "other"

\* The body of assignment's loop over Left or Right for one occurrence seq:
\* the three ifs in turn, each reading the assignments as the one before left them.
AssignFixedOne(side, X, seq, st, d1, d2, w, dictionary) ==
    LET nb == Neighbour(side, seq)
        a1 == IF subgroup(nb, st.assignments, dictionary) = "irregular"
              THEN Put(st.assignments, seq, d2) ELSE st.assignments
        u2 == subgroup(nb, a1, dictionary) = "unselected"
        a2 == IF u2 THEN Put(a1, seq, d1) ELSE a1
        D2 == IF u2 THEN Put(st.D, seq, d1) ELSE st.D
        a3 == IF subgroup(nb, a2, dictionary) = "selected"
              THEN IF group_contents(nb, w, a2, dictionary) = "irregular"
                   THEN Put(a2, seq, d2)
                   ELSE IF group_contents(nb, w, a2, dictionary) = "unselected"
                   THEN Put(a2, seq, d1)
                   ELSE IF check_all(side, X, a2, dictionary) = "irregular"
                   THEN Put(a2, seq, d2)
                   ELSE Put(a2, seq, d1)
              ELSE a2
    IN  [assignments |-> a3, D |-> D2]

\* assignment's loop over the occurrences todo of X.  What one occurrence is
\* given depends on ids of earlier pairs and on dictionary only, which the loop
\* does not change, so the order of the set's iteration does not matter.
RECURSIVE AssignFixed(_, _, _, _, _, _, _, _)
AssignFixed(side, X, todo, st, d1, d2, w, dictionary) ==
    IF todo = {} THEN st
    ELSE LET seq == CHOOSE x \in todo : TRUE
         IN  AssignFixed(side, X, todo \ {seq},
                         AssignFixedOne(side, X, seq, st, d1, d2, w, dictionary),
                         d1, d2, w, dictionary)

\* assignment(Free, ...): every free occurrence gets d1 and enters D.
AssignFree(Free, assignments, d1) ==
    [assignments |-> [x \in DOMAIN assignments \cup Free |->
                        IF x \in Free THEN d1 ELSE assignments[x]],
     D |-> [x \in Free |-> d1]]

\* One iteration of arrangement's while loop, for the pair segment with the
\* ids id1 and id1 + 1: the three calls of assignment, each followed by D.update.
ArrangeSegment(w, segment, id1, st) ==
    LET id2   == id1 + 1
        C     == make_set_c(segment, w)
        Left  == LeftOf(w, C, st.assignments)
        Right == RightOf(w, C, st.assignments)
        Free  == FreeOf(w, C, st.assignments)
        rF    == AssignFree(Free, st.assignments, id1)
        DF    == Update(st.D, rF.D)
        rL    == AssignFixed("left", Left, Left,
                             [assignments |-> rF.assignments, D |-> EmptyGrammar],
                             id1, id2, w, DF)
        DL    == Update(DF, rL.D)
        rR    == AssignFixed("right", Right, Right,
                             [assignments |-> rL.assignments, D |-> EmptyGrammar],
                             id1, id2, w, DL)
    IN  [assignments |-> rR.assignments, D |-> Update(DL, rR.D)]

\* arrangement's while loop over the sorted list L, from its n-th entry on;
\* nID is len(ID).
RECURSIVE ArrangeLoop(_, _, _, _, _)
ArrangeLoop(w, L, n, nID, st) ==
    IF n > Len(L) THEN st
    ELSE ArrangeLoop(w, L, n + 1, nID + 2, ArrangeSegment(w, L[n][2], nID, st))

\* The dictionary D of arrangement after its while loop.
ArrangementD(w, nID) ==
    ArrangeLoop(w, createSortedSegmentList(w), 1, nID,
                [assignments |-> EmptyGrammar, D |-> EmptyGrammar]).D

\* The set segments of arrangement: the pairs of symbols the entries of D name.
SegmentsOf(w, D) == {<<w[x[1] + 1], w[x[2] + 1]>> : x \in DOMAIN D}

\* Python's w.pop(i).
Pop(w, i) == Slice(w, 0, i) \o Slice(w, i + 1, Len(w))

\* The loop popping the first symbol of each replaced pair: w.pop(locs[li] - li).
RECURSIVE PopLocsFirst(_, _, _)
PopLocsFirst(w, locs, li) ==
    IF li >= Len(locs) THEN w
    ELSE PopLocsFirst(Pop(w, locs[li + 1] - li), locs, li + 1)

\* The loop "for li in xrange(len(locs))": w.pop(locs[li] - li + 1).
RECURSIVE PopLocs(_, _, _)
PopLocs(w, locs, li) ==
    IF li >= Len(locs) THEN w
    ELSE PopLocs(Pop(w, locs[li + 1] - li + 1), locs, li + 1)

\* The replacement of one segment s of segments in w.
ReplaceSegment(w, s) ==
    LET locs == Sorted({i \in 0..(Len(w) - 2) : w[i + 1] = s[1] /\ w[i + 2] = s[2]})
        here == {locs[n] : n \in 1..Len(locs)}
        w1   == [i \in 1..Len(w) |-> IF (i - 1) \in here THEN s[1] \o s[2] ELSE w[i]]
    IN  PopLocs(w1, locs, 0)

(***************************************************************************)
(* The benchmark's run of the four algorithms on one input S, one after    *)
(* the other, each a function of S alone.                                  *)
(***************************************************************************)
VARIABLES
    S,         \* the input string
    pc,        \* where the run is
    bisG,      \* what getBisectionGrammar returned
    lehCs,     \* Lehman1: Cs
    lehG,      \* Lehman1: grammar
    lehI,      \* Lehman1: the stitching loops' level i (1-based)
    lehJ,      \* Lehman1: the stitching loops' position j in the level (1-based)
    w,         \* Sakamoto: the sequence w of levelwiseRepair
    P,         \* Sakamoto: the productions P of levelwiseRepair
    ID,        \* Sakamoto: the set ID of levelwiseRepair
    segments,  \* Sakamoto: what is left of arrangement's set segments
    arrP,      \* Sakamoto: the productions P of arrangement
    wEntry,    \* Sakamoto: w when the while loop's body was last entered
    exhG,      \* what getExhaustiveGrammar returned
    args,      \* the arguments of a call of a single function
    result     \* what that call returned

vars == <<S, pc, bisG, lehCs, lehG, lehI, lehJ, w, P, ID, segments, arrP, wEntry,
          exhG, args, result>>

lehVars == <<lehCs, lehG, lehI, lehJ>>

sakVars == <<w, P, ID, segments, arrP, wEntry>>

callVars == <<args, result>>

\* The values of the variables an algorithm has not reached yet.
Idle ==
    /\ bisG = EmptyGrammar
    /\ lehCs = <<>>
    /\ lehG = EmptyGrammar
    /\ lehI = 0
    /\ lehJ = 0
    /\ w = <<>>
    /\ P = EmptyGrammar
    /\ ID = {}
    /\ segments = {}
    /\ arrP = EmptyGrammar
    /\ wEntry = <<>>
    /\ exhG = EmptyGrammar

Init ==
    /\ S \in Strings(1, MaxLen)
    /\ pc = "bisection"
    /\ Idle
    /\ args = <<>>
    /\ result = <<>>

RunBisection ==
    /\ pc = "bisection"
    /\ bisG' = getBisectionGrammar(S)
    /\ pc' = "lehman1"
    /\ UNCHANGED <<S, lehVars, sakVars, exhG, callVars>>

\* getLehman1Grammar up to its stitching loops.
LehmanStart ==
    /\ pc = "lehman1"
    /\ lehCs' = generateCs(S)
    /\ lehG' = SubstringConstructions(S, lehCs')
    /\ lehI' = 1
    /\ lehJ' = 1
    /\ pc' = "stitch"
    /\ UNCHANGED <<S, bisG, sakVars, exhG, callVars>>

\* One iteration of the inner stitching loop, for s = Cs[i][j].
LehmanStitch ==
    /\ pc = "stitch"
    /\ lehI <= Len(lehCs)
    /\ LET s == lehCs[lehI][lehJ]
           r == IF Len(s) = 1 THEN [grammar |-> lehG, raised |-> FALSE]
                ELSE StitchOne(lehCs, lehI, lehJ, lehG)
       IN  /\ lehG' = r.grammar
           /\ pc' = IF r.raised THEN "raised" ELSE "stitch"
    /\ IF lehJ < Len(lehCs[lehI])
       THEN lehI' = lehI /\ lehJ' = lehJ + 1
       ELSE lehI' = lehI + 1 /\ lehJ' = 1
    /\ UNCHANGED <<S, bisG, lehCs, sakVars, exhG, callVars>>

\* The final loop of getLehman1Grammar, and its return.
LehmanReturn ==
    /\ pc = "stitch"
    /\ lehI > Len(lehCs)
    /\ pc' = IF ClosureViolated(lehG) THEN "raised" ELSE "sakamoto"
    /\ UNCHANGED <<S, bisG, lehVars, sakVars, exhG, callVars>>

\* levelwiseRepair up to its while loop.
SakamotoStart ==
    /\ pc = "sakamoto"
    /\ w' = Chars(S)
    /\ P' = EmptyGrammar
    /\ ID' = {}
    /\ pc' = "while"
    /\ UNCHANGED <<S, bisG, lehVars, segments, arrP, wEntry, exhG, callVars>>

\* The while loop's test holds: P.update(repetition(w)).
Repetition ==
    /\ pc = "while"
    /\ hasRepeatingPairs(w)
    /\ wEntry' = w
    /\ LET r == repetition(w)
       IN  /\ w' = r.w
           /\ P' = Update(P, r.P)
    /\ pc' = "arrangement"
    /\ UNCHANGED <<S, bisG, lehVars, ID, segments, arrP, exhG, callVars>>

\* arrangement(w, ID) up to the loop over segments.
Arrangement ==
    /\ pc = "arrangement"
    /\ LET nID == Cardinality(ID)
           L   == createSortedSegmentList(w)
       IN  /\ segments' = SegmentsOf(w, ArrangementD(w, nID))
           /\ ID' = ID \cup (nID..(nID + 2 * Len(L) - 1))
    /\ arrP' = EmptyGrammar
    /\ pc' = "replace"
    /\ UNCHANGED <<S, bisG, lehVars, w, P, wEntry, exhG, callVars>>

\* One iteration of "for s in segments", the set's next element being any of
\* those left.
Replace ==
    /\ pc = "replace"
    /\ \E s \in segments :
        /\ w' = ReplaceSegment(w, s)
        /\ arrP' = Put(arrP, s[1] \o s[2], <<s[1], s[2]>>)
        /\ segments' = segments \ {s}
    /\ UNCHANGED <<S, pc, bisG, lehVars, P, ID, wEntry, exhG, callVars>>

\* arrangement returns: P.update(arrangement(w, ID)).
ArrangementReturn ==
    /\ pc = "replace"
    /\ segments = {}
    /\ P' = Update(P, arrP)
    /\ pc' = "while"
    /\ UNCHANGED <<S, bisG, lehVars, w, ID, segments, arrP, wEntry, exhG, callVars>>

\* The while loop's test fails: levelwiseRepair returns P.
SakamotoReturn ==
    /\ pc = "while"
    /\ ~hasRepeatingPairs(w)
    /\ P' = IF Len(w) = 1 THEN P ELSE Update(P, produceTrivialGrammar(w))
    /\ pc' = "exhaustive"
    /\ UNCHANGED <<S, bisG, lehVars, w, ID, segments, arrP, wEntry, exhG, callVars>>

RunExhaustive ==
    /\ pc = "exhaustive"
    /\ Len(S) <= MaxExhaustiveLen
    /\ exhG' = getExhaustiveGrammar(S)
    /\ pc' = "done"
    /\ UNCHANGED <<S, bisG, lehVars, sakVars, callVars>>

Next ==
    \/ RunBisection
    \/ LehmanStart
    \/ LehmanStitch
    \/ LehmanReturn
    \/ SakamotoStart
    \/ Repetition
    \/ Arrangement
    \/ Replace
    \/ ArrangementReturn
    \/ SakamotoReturn
    \/ RunExhaustive

Spec == Init /\ [][Next]_vars

(***************************************************************************)
(* A call of computeOverlap on two strings.                                *)
(***************************************************************************)
InitOverlap ==
    /\ S = <<>>
    /\ pc = "call"
    /\ Idle
    /\ args \in Strings(0, MaxOverlapLen) \X Strings(0, MaxOverlapLen)
    /\ result = <<>>

CallComputeOverlap ==
    /\ pc = "call"
    /\ result' = computeOverlap(args[1], args[2])
    /\ pc' = "returned"
    /\ UNCHANGED <<S, bisG, lehVars, sakVars, exhG, args>>

NextOverlap == CallComputeOverlap

SpecOverlap == InitOverlap /\ [][NextOverlap]_vars

(***************************************************************************)
(* The superstring kernel of Lehman1 called on its own, on a list of       *)
(* strings: args is <<Ss>>.                                                *)
(***************************************************************************)
\* The lists of n elements of items.
RECURSIVE ListsOfLen(_, _)
ListsOfLen(items, n) ==
    IF n = 0 THEN {<<>>}
    ELSE {Append(l, x) : l \in ListsOfLen(items, n - 1), x \in items}

Lists(items, lo, hi) == UNION {ListsOfLen(items, n) : n \in lo..hi}

InitLists ==
    /\ S = <<>>
    /\ pc = "lists"
    /\ Idle
    /\ args \in {<<Ss>> : Ss \in Lists(Strings(1, MaxItemLen), 1, MaxListLen)}
    /\ result = <<>>

CallBlum ==
    /\ pc = "lists"
    /\ result' = blumSmallestSuperstringAndBreaking(args[1])
    /\ pc' = "blum"
    /\ UNCHANGED <<S, bisG, lehVars, sakVars, exhG, args>>

CallPairWithMaximumOverlap ==
    /\ pc = "lists"
    /\ Len(args[1]) >= 2
    /\ result' = pairWithMaximumOverlap(args[1])
    /\ pc' = "pair"
    /\ UNCHANGED <<S, bisG, lehVars, sakVars, exhG, args>>

NextLists == CallBlum \/ CallPairWithMaximumOverlap

SpecLists == InitLists /\ [][NextLists]_vars

(***************************************************************************)
(* splitTooBigs called on its own: args is <<strings, split_len>>.         *)
(***************************************************************************)
InitSplit ==
    /\ S = <<>>
    /\ pc = "tosplit"
    /\ Idle
    /\ args \in Lists(Strings(1, MaxSplitItemLen), 0, MaxSplitItems) \X (1..MaxSplitLen)
    /\ result = <<>>

CallSplitTooBigs ==
    /\ pc = "tosplit"
    /\ result' = splitTooBigs(args[1], args[2])
    /\ pc' = "split"
    /\ UNCHANGED <<S, bisG, lehVars, sakVars, exhG, args>>

NextSplit == CallSplitTooBigs

SpecSplit == InitSplit /\ [][NextSplit]_vars

(***************************************************************************)
(* make_sets as arrangement calls it: args is <<w>>, a w the first         *)
(* repetition pass of levelwiseRepair left, and result is what one         *)
(* iteration of arrangement's while loop hands to make_sets and gets back. *)
(***************************************************************************)
InitSets ==
    /\ S = <<>>
    /\ pc = "tosets"
    /\ Idle
    /\ args \in {<<repetition(Chars(T)).w>> :
                    T \in {U \in Strings(1, MaxSetsLen) : hasRepeatingPairs(Chars(U))}}
    /\ result = <<>>

\* The n-th iteration of arrangement's while loop up to make_sets; ID is empty
\* in the first pass.
CallMakeSets ==
    /\ pc = "tosets"
    /\ LET L == createSortedSegmentList(args[1])
       IN  \E n \in 1..Len(L) :
             LET st == ArrangeLoop(args[1], SubSeq(L, 1, n - 1), 1, 0,
                                   [assignments |-> EmptyGrammar, D |-> EmptyGrammar])
                 C  == make_set_c(L[n][2], args[1])
             IN  result' = [segment     |-> L[n][2],
                            C           |-> C,
                            Assignments |-> DOMAIN st.assignments,
                            Left        |-> LeftOf(args[1], C, st.assignments),
                            Right       |-> RightOf(args[1], C, st.assignments),
                            Free        |-> FreeOf(args[1], C, st.assignments)]
    /\ pc' = "sets"
    /\ UNCHANGED <<S, bisG, lehVars, sakVars, exhG, args>>

NextSets == CallMakeSets

SpecSets == InitSets /\ [][NextSets]_vars

(***************************************************************************)
(* generateAllGrammars called on its own: args is <<goal>>, result the     *)
(* list of the grammars yielded.                                           *)
(***************************************************************************)
InitAll ==
    /\ S = <<>>
    /\ pc = "toall"
    /\ Idle
    /\ args \in {<<T>> : T \in Strings(1, MaxExhaustiveLen)}
    /\ result = <<>>

CallGenerateAllGrammars ==
    /\ pc = "toall"
    /\ result' = generateAllGrammars(args[1])
    /\ pc' = "all"
    /\ UNCHANGED <<S, bisG, lehVars, sakVars, exhG, args>>

NextAll == CallGenerateAllGrammars

SpecAll == InitAll /\ [][NextAll]_vars

(***************************************************************************)
(* What the claims speak of.                                               *)
(***************************************************************************)
BisectionReturned ==
    pc \in {"lehman1", "stitch", "raised", "sakamoto", "while", "arrangement", "replace",
            "exhaustive", "done"}

LehmanReturned == pc \in {"sakamoto", "while", "arrangement", "replace", "exhaustive", "done"}

SakamotoReturned == pc \in {"exhaustive", "done"}

ExhaustiveReturned == pc = "done"

\* One round of replacing every nonterminal (every key of G) of a sequence
\* of symbols by its right-hand side.
RECURSIVE ReplaceAll(_, _)
ReplaceAll(G, syms) ==
    IF syms = <<>> THEN <<>>
    ELSE (IF Head(syms) \in DOMAIN G THEN G[Head(syms)] ELSE <<Head(syms)>>)
         \o ReplaceAll(G, Tail(syms))

\* The sequence of symbols left after at most rounds rounds, stopping when no
\* symbol is a key any more.
RECURSIVE Rewrite(_, _, _)
Rewrite(G, syms, rounds) ==
    IF rounds = 0 \/ \A n \in 1..Len(syms) : syms[n] \notin DOMAIN G THEN syms
    ELSE Rewrite(G, ReplaceAll(G, syms), rounds - 1)

\* G expands T to exactly T: the rewriting from the nonterminal named T ends,
\* within as many rounds as G has productions, in the characters of T.
ExpandsTo(G, T) == Rewrite(G, <<T>>, Cardinality(DOMAIN G)) = Chars(T)

\* The symbols on the right-hand side of key k of G.
Symbols(G, k) == {G[k][n] : n \in 1..Len(G[k])}

\* Closure: every right-hand side symbol of length >= 2 is a key.
Closed(G) == \A k \in DOMAIN G : \A v \in Symbols(G, k) : Len(v) >= 2 => v \in DOMAIN G

\* The keys of G reachable from the keys of frontier through right-hand
\* sides, in one step or more.
RECURSIVE ReachableKeys(_, _, _)
ReachableKeys(G, frontier, seen) ==
    LET next == (UNION {Symbols(G, k) : k \in frontier}) \cap DOMAIN G
    IN  IF next \subseteq seen THEN seen
        ELSE ReachableKeys(G, next \ seen, seen \cup next)

Acyclic(G) == \A k \in DOMAIN G : k \notin ReachableKeys(G, {k}, {})

(***************************************************************************)
(* C1: for every input S with |S| >= 1, the grammar getSakamotoGrammar     *)
(* returns expands, from the nonterminal named S, to exactly S: for        *)
(* |S| >= 2 the string S is a key, and replacing every nonterminal by its  *)
(* right-hand side again and again ends in the characters of S.            *)
(***************************************************************************)
C1_SakamotoExpandsToInput ==
    SakamotoReturned =>
        /\ Len(S) >= 2 => S \in DOMAIN P
        /\ ExpandsTo(P, S)

\* Sakamoto returned after a repetition pass folded a run, an arrangement pass
\* went through two pairs or more, and the trivial chain was appended.
C1_Witness ==
    /\ SakamotoReturned
    /\ Len(w) >= 2
    /\ Cardinality(ID) >= 4
    /\ \E k \in DOMAIN P : P[k][1] = P[k][2]
    /\ Join(w) \in DOMAIN P
    /\ ExpandsTo(P, S)

(***************************************************************************)
(* C2: for every input S with |S| >= 1, the grammar getLehman1Grammar      *)
(* returns expands, from the nonterminal named S, to exactly S: for        *)
(* |S| >= 2 the string S is a key, and the concatenation of the symbols of *)
(* every production's right-hand side is that production's key.            *)
(***************************************************************************)
C2_LehmanExpandsToInput ==
    LehmanReturned =>
        /\ Len(S) >= 2 => S \in DOMAIN lehG
        /\ \A k \in DOMAIN lehG : Join(lehG[k]) = k
        /\ ExpandsTo(lehG, S)

\* Lehman1 returned a grammar built over four levels, one right-hand side of
\* which was stitched from four symbols.
C2_Witness ==
    /\ LehmanReturned
    /\ Len(lehCs) >= 4
    /\ \E k \in DOMAIN lehG : Len(lehG[k]) >= 4 /\ Join(lehG[k]) = k
    /\ ExpandsTo(lehG, S)

(***************************************************************************)
(* C3: for every string S with |S| >= 1 over a 2-letter alphabet,          *)
(* getLehman1Grammar(S) returns without raising: neither the final closure *)
(* check nor findLongestPrefix's "String not found as a prefix" is ever    *)
(* triggered, at any level of the stitching.                               *)
(***************************************************************************)
C3_LehmanNeverRaises == pc # "raised"

\* The number of whole segments of the next finer level that the stitching of
\* Cs[i][j] consumes first.
SegmentsConsumed(Cs, i, j) ==
    LET f == findLongestPrefix(Cs[i][j], Cs[i + 1])
    IN  f[2] - f[1]

\* Lehman1 returned, having stitched some string from three or more segments
\* of the next level (the case that looks for a split) and passed the final check.
C3_Witness ==
    /\ LehmanReturned
    /\ ~ClosureViolated(lehG)
    /\ \E i \in 1..(Len(lehCs) - 1) : \E j \in 1..Len(lehCs[i]) :
          Len(lehCs[i][j]) > 1 /\ SegmentsConsumed(lehCs, i, j) >= 3

(***************************************************************************)
(* C4: getBisectionGrammar(S) holds exactly one production                 *)
(* T -> [T[:|T| div 2], T[|T| div 2:]] for each distinct string T of       *)
(* length >= 2 reached from S by repeated floor-midpoint halving, and no   *)
(* other production; strings of length 1 are never keys and equal          *)
(* substrings share one key ("abababab" yields exactly three productions). *)
(***************************************************************************)
\* The strings reached from T by halving at the floor midpoint, T included.
RECURSIVE Halvings(_)
Halvings(T) ==
    IF Len(T) < 2 THEN {T}
    ELSE {T} \cup Halvings(Slice(T, 0, Len(T) \div 2))
             \cup Halvings(Slice(T, Len(T) \div 2, Len(T)))

C4_BisectionProductions ==
    BisectionReturned =>
        /\ DOMAIN bisG = {T \in Halvings(S) : Len(T) >= 2}
        /\ \A T \in DOMAIN bisG :
              bisG[T] = <<Slice(T, 0, Len(T) \div 2), Slice(T, Len(T) \div 2, Len(T))>>

\* Bisection returned three productions for "abababab".
C4_Witness ==
    /\ BisectionReturned
    /\ S = <<"a", "b", "a", "b", "a", "b", "a", "b">>
    /\ Cardinality(DOMAIN bisG) = 3

(***************************************************************************)
(* C5: for every S with |S| >= 2, getExhaustiveGrammar(S) is minimal under *)
(* the order (grammar size, derivation depth from S) among the grammars    *)
(* got by choosing a binary split for every nonterminal: none has a        *)
(* smaller size, none of equal size a smaller depth.                       *)
(***************************************************************************)
\* The grammars for S with one binary split chosen for every nonterminal
\* reachable from S: todo are the strings still without a production.
RECURSIVE SplitGrammars(_, _)
SplitGrammars(G, todo) ==
    IF todo = {} THEN {G}
    ELSE LET T == CHOOSE U \in todo : TRUE
         IN  UNION {LET l == Slice(T, 0, i)
                        r == Slice(T, i, Len(T))
                        G1 == Put(G, T, <<l, r>>)
                    IN  SplitGrammars(G1, {U \in (todo \cup {l, r}) :
                                              Len(U) >= 2 /\ U \notin DOMAIN G1})
                    : i \in 1..(Len(T) - 1)}

\* The number of rewriting rounds from T until only terminals are left.
RECURSIVE RoundsFrom(_, _)
RoundsFrom(G, ws) ==
    IF \A n \in 1..Len(ws) : ws[n] \notin DOMAIN G THEN 0
    ELSE 1 + RoundsFrom(G, ReplaceAll(G, ws))

Depth(G, T) == RoundsFrom(G, <<T>>)

\* (size, depth) of G is below that of H in the lexicographic order.
Smaller(G, H, T) ==
    \/ grammarSize(G) < grammarSize(H)
    \/ grammarSize(G) = grammarSize(H) /\ Depth(G, T) < Depth(H, T)

C5_ExhaustiveMinimal ==
    (ExhaustiveReturned /\ Len(S) >= 2) =>
        /\ exhG \in SplitGrammars(EmptyGrammar, {S})
        /\ \A H \in SplitGrammars(EmptyGrammar, {S}) : ~Smaller(H, exhG, S)

\* Exhaustive returned for a string of the greatest length it is run on, with
\* both a larger grammar and one of the same size but greater depth to reject.
C5_Witness ==
    /\ ExhaustiveReturned
    /\ Len(S) = MaxExhaustiveLen
    /\ \E H \in SplitGrammars(EmptyGrammar, {S}) : grammarSize(exhG) < grammarSize(H)
    /\ \E H \in SplitGrammars(EmptyGrammar, {S}) :
          grammarSize(exhG) = grammarSize(H) /\ Depth(exhG, S) < Depth(H, S)

(***************************************************************************)
(* C6: for every S on which Exhaustive is run, the size (sum of the        *)
(* right-hand side lengths over all productions) of                        *)
(* getExhaustiveGrammar(S) is at most the size of getBisectionGrammar(S),  *)
(* of getLehman1Grammar(S) and of getSakamotoGrammar(S).                   *)
(***************************************************************************)
C6_ExhaustiveSmallest ==
    ExhaustiveReturned =>
        /\ grammarSize(exhG) <= grammarSize(bisG)
        /\ grammarSize(exhG) <= grammarSize(lehG)
        /\ grammarSize(exhG) <= grammarSize(P)

\* All four algorithms returned and Exhaustive is strictly smaller than each
\* of the other three.
C6_Witness ==
    /\ ExhaustiveReturned
    /\ grammarSize(exhG) < grammarSize(bisG)
    /\ grammarSize(exhG) < grammarSize(lehG)
    /\ grammarSize(exhG) < grammarSize(P)

(***************************************************************************)
(* C7: the outer loop of levelwiseRepair terminates: every iteration that  *)
(* is entered (w has an adjacent pair occurring at least twice) leaves w   *)
(* strictly shorter after the repetition and arrangement passes than it    *)
(* was before, so the loop never runs on with w unchanged.                 *)
(***************************************************************************)
\* wEntry is w as the last iteration entered found it; back at the loop's
\* test, w is shorter.
C7_IterationShrinksW ==
    (pc = "while" /\ wEntry # <<>>) => Len(w) < Len(wEntry)

\* Back at the loop's test after an iteration in which repetition found no
\* run to fold, so that arrangement alone shortened w, and with the test
\* holding again for a further iteration.
C7_Witness ==
    /\ pc = "while"
    /\ wEntry # <<>>
    /\ repetition(wEntry).w = wEntry
    /\ Len(w) < Len(wEntry)
    /\ hasRepeatingPairs(w)

(***************************************************************************)
(* C8: for each of the four algorithms and every input S with |S| >= 1,    *)
(* every symbol of length >= 2 on any right-hand side of the returned      *)
(* grammar, right-hand sides of productions not reachable from S included, *)
(* is itself a key of that grammar.                                        *)
(***************************************************************************)
C8_ReturnedGrammarsClosed ==
    /\ BisectionReturned => Closed(bisG)
    /\ LehmanReturned => Closed(lehG)
    /\ SakamotoReturned => Closed(P)
    /\ ExhaustiveReturned => Closed(exhG)

\* The productions of G that cannot be reached from T and have a symbol of
\* length >= 2 on their right-hand side.
UnreachableLong(G, T) ==
    {k \in DOMAIN G : /\ k \notin ReachableKeys(G, {T}, {T})
                      /\ \E v \in Symbols(G, k) : Len(v) >= 2}

\* All four algorithms returned, and the grammar of Sakamoto holds a
\* production that cannot be reached from S and names a nonterminal.
C8_Witness ==
    /\ ExhaustiveReturned
    /\ UnreachableLong(P, S) # {}
    /\ Closed(P)

(***************************************************************************)
(* C9: for each of the four algorithms and every input S with |S| >= 1,    *)
(* the returned grammar is acyclic: no key is on its own right-hand side   *)
(* or reachable from itself through right-hand sides.  For Lehman1, a      *)
(* production s -> [s] written while stitching a segment s that appears    *)
(* again unchanged at a finer level is overwritten before the grammar is   *)
(* returned, so every returned right-hand side has at least two symbols.   *)
(***************************************************************************)
C9_ReturnedGrammarsAcyclic ==
    /\ BisectionReturned => Acyclic(bisG)
    /\ LehmanReturned =>
          /\ Acyclic(lehG)
          /\ \A k \in DOMAIN lehG : Len(lehG[k]) >= 2
    /\ SakamotoReturned => Acyclic(P)
    /\ ExhaustiveReturned => Acyclic(exhG)

\* The segments Cs[i][j] whose stitching at level i wrote s -> [s]: s is a
\* segment of the next level too and is taken from it whole.
SelfLoopsWritten(Cs, grammar) ==
    UNION {{<<i, j>> : j \in {n \in 1..Len(Cs[i]) :
                /\ Len(Cs[i][n]) > 1
                /\ StitchLevels(Cs, i + 1, <<>>, Cs[i][n], grammar).rhs = <<Cs[i][n]>>}}
           : i \in 1..(Len(Cs) - 1)}

\* Lehman1 returned after its stitching had written a production s -> [s],
\* and the returned grammar gives s two symbols or more.
C9_Witness ==
    /\ LehmanReturned
    /\ \E x \in SelfLoopsWritten(lehCs, lehG) :
          Len(lehG[lehCs[x[1]][x[2]]]) >= 2
    /\ Acyclic(lehG)

(***************************************************************************)
(* C10: for all strings a and b, computeOverlap(a, b) returns              *)
(* (k, |a| - k, 0) where k is the largest length with                      *)
(* 1 <= k < min(|a|, |b|) such that the last k characters of a are the     *)
(* first k characters of b, and (0, |a|, 0) when there is no such k.  The  *)
(* overlap is never min(|a|, |b|) itself; identical strings, and a string  *)
(* that is wholly a prefix or suffix of the other, give overlap 0 only     *)
(* when no shorter suffix of a is a prefix of b.                           *)
(***************************************************************************)
\* The lengths k the claim ranges over.
OverlapLengths(a, b) ==
    {k \in 1..(Min2(Len(a), Len(b)) - 1) :
        SubSeq(a, Len(a) - k + 1, Len(a)) = SubSeq(b, 1, k)}

\* What the claim says computeOverlap(a, b) returns.
ExpectedOverlap(a, b) ==
    IF OverlapLengths(a, b) = {} THEN <<0, Len(a), 0>>
    ELSE LET k == CHOOSE n \in OverlapLengths(a, b) :
                      \A m \in OverlapLengths(a, b) : m <= n
         IN  <<k, Len(a) - k, 0>>

C10_ComputeOverlap ==
    pc = "returned" =>
        /\ result = ExpectedOverlap(args[1], args[2])
        /\ result[1] = 0 \/ result[1] < Min2(Len(args[1]), Len(args[2]))

\* computeOverlap returned for two identical strings with an overlap that is
\* not 0, having passed a shorter match on the way.
C10_Witness ==
    /\ pc = "returned"
    /\ args[1] = args[2]
    /\ Cardinality(OverlapLengths(args[1], args[2])) >= 2
    /\ result[1] >= 2

\* a is b, or one of the two is wholly a prefix or a suffix of the other.
WhollyContained(a, b) ==
    LET n == Min2(Len(a), Len(b))
    IN  \/ SubSeq(a, 1, n) = SubSeq(b, 1, n)
        \/ SubSeq(a, Len(a) - n + 1, Len(a)) = SubSeq(b, Len(b) - n + 1, Len(b))

\* C10 as it was stated, with its consequence that identical strings, and a
\* string that is wholly a prefix or suffix of the other, give overlap 0.
C10_AsStated ==
    pc = "returned" =>
        /\ result = ExpectedOverlap(args[1], args[2])
        /\ WhollyContained(args[1], args[2]) => result[1] = 0

(***************************************************************************)
(* C11: for every non-empty list M of non-empty strings (duplicates and    *)
(* strings equal to a merge result allowed), the concatenation of the      *)
(* segments blumSmallestSuperstringAndBreaking(M) returns contains every   *)
(* string of M, and every string of M occurs in it starting exactly at a   *)
(* boundary between two output segments (or at position 0).                *)
(***************************************************************************)
\* The positions at which the segments of segs start in their concatenation.
SegmentStarts(segs) == {Len(Join(SubSeq(segs, 1, n))) : n \in 0..(Len(segs) - 1)}

\* T occurs in sup starting at position b (0-based).
OccursAt(T, sup, b) ==
    /\ b + Len(T) <= Len(sup)
    /\ SubSeq(sup, b + 1, b + Len(T)) = T

C11_BlumCoversAtBoundaries ==
    pc = "blum" =>
        /\ \A n \in 1..Len(result) : Len(result[n]) >= 1
        /\ \A i \in 1..Len(args[1]) :
              \E b \in SegmentStarts(result) : OccursAt(args[1][i], Join(result), b)

\* The call returned for a list holding the same string twice and a string
\* equal to the merge of two others, after a merge that overlapped its two
\* strings, with a string of M starting inside the superstring.
C11_Witness ==
    /\ pc = "blum"
    /\ \E i, j \in 1..Len(args[1]) : i < j /\ args[1][i] = args[1][j]
    /\ \E i, j, n \in 1..Len(args[1]) :
          /\ i # j /\ n # i /\ n # j
          /\ LET o == computeOverlap(args[1][i], args[1][j])
             IN  args[1][n] = Slice(args[1][i], 0, o[2]) \o args[1][j]
    /\ Len(result) >= 2
    /\ \A i \in 1..Len(args[1]) :
          \E b \in SegmentStarts(result) : OccursAt(args[1][i], Join(result), b)

(***************************************************************************)
(* C12: when several pairs of positions of the working list share the      *)
(* greatest overlap, the pair pairWithMaximumOverlap hands to the merge    *)
(* loop is the last one in iteration order: the greatest first index i,    *)
(* then the greatest second index j (the triples (overlap, i, j) are       *)
(* compared as tuples).  C12_AsStated is the statement with the first pair *)
(* in iteration order (smallest i, then smallest j).                       *)
(***************************************************************************)
\* The overlap the loop computes for the pair of positions p (0-based, i < j).
PairOverlap(Ss, p) == computeOverlap(Ss[p[1] + 1], Ss[p[2] + 1])[1]

\* The pairs of positions i < j whose overlap no other pair exceeds.
MaxOverlapPairs(Ss) ==
    {p \in IndexPairs(Len(Ss)) :
        \A q \in IndexPairs(Len(Ss)) : PairOverlap(Ss, q) <= PairOverlap(Ss, p)}

\* p comes before q in the order the two nested loops visit the pairs.
VisitedBefore(p, q) == p[1] < q[1] \/ (p[1] = q[1] /\ p[2] < q[2])

FirstMaxPair(Ss) ==
    CHOOSE p \in MaxOverlapPairs(Ss) :
        \A q \in MaxOverlapPairs(Ss) : ~VisitedBefore(q, p)

LastMaxPair(Ss) ==
    CHOOSE p \in MaxOverlapPairs(Ss) :
        \A q \in MaxOverlapPairs(Ss) : ~VisitedBefore(p, q)

StringsAt(Ss, p) == <<Ss[p[1] + 1], Ss[p[2] + 1]>>

C12_TiesPreferLastPair ==
    pc = "pair" => result = StringsAt(args[1], LastMaxPair(args[1]))

\* Two pairs share a positive greatest overlap, and the first and the last of
\* them name different strings.
C12_Witness ==
    /\ pc = "pair"
    /\ PairOverlap(args[1], LastMaxPair(args[1])) >= 1
    /\ StringsAt(args[1], FirstMaxPair(args[1])) # StringsAt(args[1], LastMaxPair(args[1]))
    /\ result = StringsAt(args[1], LastMaxPair(args[1]))

C12_AsStated ==
    pc = "pair" => result = StringsAt(args[1], FirstMaxPair(args[1]))

(***************************************************************************)
(* C13: for every list Ss of at least two strings, the two strings x, y    *)
(* pairWithMaximumOverlap(Ss) returns are strings of the list, and no two  *)
(* strings a, b at distinct positions of Ss have computeOverlap(a, b) or   *)
(* computeOverlap(b, a) larger than computeOverlap(x, y).                  *)
(***************************************************************************)
C13_AsStated ==
    pc = "pair" =>
        /\ \E i, j \in 1..Len(args[1]) :
              i # j /\ result = <<args[1][i], args[1][j]>>
        /\ \A i, j \in 1..Len(args[1]) :
              i # j => computeOverlap(args[1][i], args[1][j])[1]
                            <= computeOverlap(result[1], result[2])[1]

\* C13, as far as the loop establishes it: the returned pair is at positions
\* i < j and no pair of positions i < j, taken in list order (suffix of the
\* earlier string, prefix of the later one), overlaps more.
C13_MaximalInListOrder ==
    pc = "pair" =>
        \E p \in IndexPairs(Len(args[1])) :
            /\ result = StringsAt(args[1], p)
            /\ \A q \in IndexPairs(Len(args[1])) :
                  PairOverlap(args[1], q) <= computeOverlap(result[1], result[2])[1]

\* A call whose returned pair overlaps less than a pair taken against the
\* list order.
C13_Witness ==
    /\ pc = "pair"
    /\ \E i, j \in 1..Len(args[1]) :
          /\ i < j
          /\ computeOverlap(args[1][j], args[1][i])[1]
                > computeOverlap(result[1], result[2])[1]

(***************************************************************************)
(* C14: for every list of strings and every threshold k >= 1,              *)
(* splitTooBigs(strings, k) keeps the strings of length <= k, replaces     *)
(* each longer string by its two halves at the floor-midpoint, once, and   *)
(* the concatenation of the output equals that of the input.  Every output *)
(* segment has length <= k when no input string is longer than 2k.         *)
(* C14_AsStated is the statement that every output segment has length      *)
(* <= k for every input.                                                   *)
(***************************************************************************)
\* The strings of the list longer than k, as positions.
TooBig(strings, k) == {i \in 1..Len(strings) : Len(strings[i]) > k}

\* The position in the output where the image of strings[i] starts (1-based).
ImageStart(strings, k, i) == i + Cardinality({j \in TooBig(strings, k) : j < i})

C14_SplitsOnce ==
    pc = "split" =>
        LET strings == args[1]
            k       == args[2]
        IN  /\ Len(result) = Len(strings) + Cardinality(TooBig(strings, k))
            /\ \A i \in 1..Len(strings) :
                  LET s == strings[i]
                      n == ImageStart(strings, k, i)
                  IN  IF Len(s) > k
                      THEN /\ result[n] \o result[n + 1] = s
                           /\ Len(result[n]) = Len(s) \div 2
                      ELSE result[n] = s
            /\ Join(result) = Join(strings)
            /\ (\A i \in 1..Len(strings) : Len(strings[i]) <= 2 * k)
                  => \A n \in 1..Len(result) : Len(result[n]) <= k

\* A call on a string longer than 2k next to one that is kept: a segment
\* longer than k is returned.
C14_Witness ==
    /\ pc = "split"
    /\ \E i, j \in 1..Len(args[1]) :
          Len(args[1][i]) > 2 * args[2] /\ Len(args[1][j]) <= args[2]
    /\ \E n \in 1..Len(result) : Len(result[n]) > args[2]
    /\ Join(result) = Join(args[1])

C14_AsStated ==
    pc = "split" =>
        /\ \A n \in 1..Len(result) : Len(result[n]) <= args[2]
        /\ Join(result) = Join(args[1])

(***************************************************************************)
(* C15: for every S with |S| = n >= 2 and k0 = 2^(ceil(log2 n) - 1),       *)
(* generateCs(S) returns levels C_0 = [S], C_1, ..., C_m, one level per k  *)
(* in k0, k0/2, ..., 2, and every segment of level C_i (i >= 1) has length *)
(* between 1 and k0 / 2^(i-1); every segment of the last level has length  *)
(* at most 2.                                                              *)
(***************************************************************************)
\* k0 for n >= 2: the power of two p with p < n <= 2p.
K0(n) == CHOOSE p \in {2^e : e \in 0..n} : p < n /\ n <= 2 * p

\* The thresholds k0, k0/2, ..., 2: the powers of two from 2 up to k0.
Thresholds(n) == {2^e : e \in 1..n} \cap (2..K0(n))

MaximalRuns(v) ==
    {r \in (0..(Len(v) - 1)) \X (0..(Len(v) - 1)) :
        /\ r[1] < r[2]
        /\ \A x \in r[1]..r[2] : v[x + 1] = v[r[1] + 1]
        /\ (r[1] = 0 \/ v[r[1]] # v[r[1] + 1])
        /\ (r[2] = Len(v) - 1 \/ v[r[2] + 2] # v[r[2] + 1])}

\* G holds the productions of a^l in units of a.
RECURSIVE UnitRules(_, _, _)
UnitRules(a, l, G) ==
    IF l <= 1 THEN TRUE
    ELSE /\ Repeat(a, l) \in DOMAIN G
         /\ IF l = 2 THEN G[Repeat(a, 2)] = <<a, a>>
            ELSE IF l % 2 = 0
            THEN /\ G[Repeat(a, l)] = <<Repeat(a, l \div 2), Repeat(a, l \div 2)>>
                 /\ UnitRules(a, l \div 2, G)
            ELSE /\ G[Repeat(a, l)] = <<Repeat(a, l - 1), a>>
                 /\ UnitRules(a, l - 1, G)

C16_AsStated ==
    pc = "arrangement" =>
        \A r \in MaximalRuns(wEntry) :
            UnitRules(wEntry[r[1] + 1], r[2] - r[1] + 1, P)

\* C16, as far as the code establishes it: the new symbol is decomposed in
\* units of one character, whatever the length of a, which are the units of a
\* when a is a single character.
RECURSIVE CharacterRules(_, _)
CharacterRules(T, G) ==
    IF Len(T) <= 1 THEN TRUE
    ELSE /\ T \in DOMAIN G
         /\ IF Len(T) = 2 THEN G[T] = <<<<T[1]>>, <<T[2]>>>>
            ELSE IF Len(T) % 2 = 0
            THEN /\ G[T] = <<SubSeq(T, 1, Len(T) \div 2),
                             SubSeq(T, Len(T) \div 2 + 1, Len(T))>>
                 /\ CharacterRules(SubSeq(T, 1, Len(T) \div 2), G)
                 /\ CharacterRules(SubSeq(T, Len(T) \div 2 + 1, Len(T)), G)
            ELSE /\ G[T] = <<SubSeq(T, 1, Len(T) - 1), <<T[Len(T)]>>>>
                 /\ CharacterRules(SubSeq(T, 1, Len(T) - 1), G)

C16_DecomposedByCharacters ==
    pc = "arrangement" =>
        \A r \in MaximalRuns(wEntry) :
            LET a == wEntry[r[1] + 1]
                l == r[2] - r[1] + 1
            IN  /\ CharacterRules(Repeat(a, l), P)
                /\ Len(a) = 1 => UnitRules(a, l, P)

\* The pass folded a run of three or more of a nonterminal of several
\* characters, and the production of the new symbol is not the one in units
\* of the nonterminal.
C16_Witness ==
    /\ pc = "arrangement"
    /\ \E r \in MaximalRuns(wEntry) :
          LET a == wEntry[r[1] + 1]
              l == r[2] - r[1] + 1
          IN  /\ Len(a) >= 2
              /\ l >= 3
              /\ Repeat(a, l) \in DOMAIN P
              /\ ~UnitRules(a, l, P)

(***************************************************************************)
(* C17: in the arrangement pass an occurrence of the current pair at index *)
(* i of w is Left-fixed exactly when the segment (i-1, i) already has an   *)
(* id, Right-fixed exactly when it is not Left-fixed and the segment       *)
(* (i+1, i+2) has an id, and Free otherwise, for every index i >= 1,       *)
(* i = 1 included; the three sets partition the occurrences.               *)
(***************************************************************************)
Partition(C, X, Y, Z) ==
    /\ X \cup Y \cup Z = C
    /\ X \cap Y = {} /\ X \cap Z = {} /\ Y \cap Z = {}

C17_AsStated ==
    pc = "sets" =>
        /\ Partition(result.C, result.Left, result.Right, result.Free)
        /\ \A x \in result.C :
              LET i == x[1]
              IN  /\ x \in result.Left <=> <<i - 1, i>> \in result.Assignments
                  /\ x \in result.Right <=>
                        (x \notin result.Left /\ <<i + 1, i + 2>> \in result.Assignments)

\* C17, as far as the code establishes it: the classification as stated for
\* the occurrences at every index but 1, where an occurrence is never
\* Left-fixed.
C17_LeftFixedFromIndexTwo ==
    pc = "sets" =>
        /\ Partition(result.C, result.Left, result.Right, result.Free)
        /\ \A x \in result.C :
              LET i == x[1]
              IN  /\ x \in result.Left <=>
                        (i # 1 /\ <<i - 1, i>> \in result.Assignments)
                  /\ x \in result.Right <=>
                        (x \notin result.Left /\ <<i + 1, i + 2>> \in result.Assignments)

\* make_sets classified an occurrence at index 1 whose left segment (0, 1)
\* has an id, and did not put it in Left.
C17_Witness ==
    /\ pc = "sets"
    /\ \E x \in result.C :
          /\ x[1] = 1
          /\ <<0, 1>> \in result.Assignments
          /\ x \notin result.Left

(***************************************************************************)
(* C18: after repetition(w) returns, every maximal run of two or more      *)
(* equal adjacent symbols of the original w has been replaced in place by  *)
(* one symbol equal to the concatenation of the run, no two adjacent       *)
(* symbols of w are equal, the concatenation of w is unchanged, and w is   *)
(* left untouched with an empty production set when it had no such run.    *)
(* Stated on the step from the loop's test to arrangement, which is        *)
(* P.update(repetition(w)).                                                *)
(***************************************************************************)
\* The positions (1-based) where a block of equal adjacent symbols starts.
BlockStarts(v) == {i \in 1..Len(v) : i = 1 \/ v[i - 1] # v[i]}

\* v with every block of equal adjacent symbols made one symbol.
FoldedRuns(v) ==
    LET starts == Sorted(BlockStarts(v))
    IN  [n \in 1..Len(starts) |->
            Join(SubSeq(v, starts[n],
                        IF n < Len(starts) THEN starts[n + 1] - 1 ELSE Len(v)))]

RECURSIVE Factorial(_)
Factorial(n) == IF n <= 1 THEN 1 ELSE n * Factorial(n - 1)

Catalan(n) == Factorial(2 * n) \div (Factorial(n) * Factorial(n + 1))

\* The grammar whose keys are the suffixes of T of two characters or more,
\* each split after its first character.
RightNested(T) ==
    [K \in {SubSeq(T, i, Len(T)) : i \in 1..(Len(T) - 1)} |->
        <<SubSeq(K, 1, 1), SubSeq(K, 2, Len(K))>>]

\* The grammar whose keys are the prefixes of T of two characters or more,
\* each split before its last character.
LeftNested(T) ==
    [K \in {SubSeq(T, 1, j) : j \in 2..Len(T)} |->
        <<SubSeq(K, 1, Len(K) - 1), SubSeq(K, Len(K), Len(K))>>]

C19_CatalanManyRightNestedFirst ==
    pc = "all" =>
        /\ Len(result) = Catalan(Len(args[1]) - 1)
        /\ result[1] = RightNested(args[1])
        /\ result[Len(result)] = LeftNested(args[1])
        /\ Len(args[1]) = 1 => result = <<EmptyGrammar>>

\* The generator returned for a string of five characters or more in which
\* a key of the right-nested grammar is a key of the left-nested one too,
\* with another right-hand side.
C19_Witness ==
    /\ pc = "all"
    /\ Len(args[1]) >= 5
    /\ Len(result) = Catalan(Len(args[1]) - 1)
    /\ result[1] = RightNested(args[1])
    /\ result[Len(result)] = LeftNested(args[1])
    /\ \E K \in DOMAIN result[1] \cap DOMAIN result[Len(result)] :
          Len(K) < Len(args[1]) /\ result[1][K] # result[Len(result)][K]

(***************************************************************************)
(* C20: at every point of levelwiseRepair between passes (before the loop, *)
(* after each repetition pass, after each arrangement pass, and at exit)   *)
(* the concatenation of the symbols of w equals the input S, and every     *)
(* symbol of w of length >= 2 is a key of the accumulated production set P *)
(* whose right-hand side has exactly two symbols concatenating to that     *)
(* key.                                                                    *)
(***************************************************************************)
\* The points between passes: the loop's test, before and after every pass
\* ("while"), after a repetition pass ("arrangement"), and after the return.
BetweenPasses == pc \in {"while", "arrangement", "exhaustive", "done"}

C20_SymbolsOfWAreProduced ==
    BetweenPasses =>
        /\ Join(w) = S
        /\ \A i \in 1..Len(w) :
              Len(w[i]) >= 2 =>
                  /\ w[i] \in DOMAIN P
                  /\ Len(P[w[i]]) = 2
                  /\ P[w[i]][1] \o P[w[i]][2] = w[i]

\* The loop's test after a pass, with a further pass to come: w holds a
\* symbol produced from twice the same symbol and one produced from a pair of
\* different symbols.
C20_Witness ==
    /\ pc = "while"
    /\ hasRepeatingPairs(w)
    /\ Join(w) = S
    /\ \E i \in 1..Len(w) :
          /\ w[i] \in DOMAIN P
          /\ P[w[i]][1] = P[w[i]][2]
    /\ \E i \in 1..Len(w) :
          /\ w[i] \in DOMAIN P
          /\ P[w[i]][1] # P[w[i]][2]

====
